---- MODULE Spec2Model ----
(***************************************************************************)
(* BUDDY core runtime: the CRDT synchronization engine (buddy/sync.py) and *)
(* the security manager it uses (buddy/security.py).                       *)
(*                                                                         *)
(* Every device runs one SyncEngine and one SecurityManager.  The state of *)
(* device d is d's component of each variable.  Handlers are coroutines    *)
(* that never suspend before they finish (every awaited callee is a mock   *)
(* or synchronous code), so each handler is one atomic action.             *)
(***************************************************************************)
EXTENDS Integers, Sequences, FiniteSets, TLC

\* ------------------------------------------------------------------ bounds
\* Cap on a device's own clock coordinate, i.e. on its number of local writes.
MaxClock == 2
\* Largest clock value in the drawn operations and stores.
MaxDrawn == 1

\* ------------------------------------------------------------ value space
Devices == {"A", "B"}
\* A device id that runs no engine here: the origin of foreign operations.
Outsider == "X"
DeviceIds == Devices \cup {Outsider}

DocIds == {"note1"}
Payloads ==
    { [k \in {"text"} |-> "hi"],
      [k \in {"text"} |-> "hi all"],
      [k \in {"theme"} |-> "light"] }
OperationTypes == {"create", "update", "delete"}
\* Operation timestamps: 1 is a wall-clock reading, 0 stands for a value that
\* datetime.fromtimestamp rejects (out of range, NaN).
Timestamps == {0, 1}
\* What time.time() and datetime.utcnow() return in the engine's own calls.
ClockReadings == {1}
\* The payloads of the local writes.
WritePayloads == { [k \in {"text"} |-> "hi"], [k \in {"text"} |-> "hi all"] }

EmptyMap == [k \in {} |-> 0]

Max(a, b) == IF a >= b THEN a ELSE b

\* Every dict {device_id: int} over a subset of Devs with values 0..n.
ClocksOver(Devs, n) == UNION { [D -> 0..n] : D \in SUBSET Devs }

\* dict.get(d, 0) on a vector clock.
ClockGet(clock, d) == IF d \in DOMAIN clock THEN clock[d] ELSE 0

\* ------------------------------------------------- the CRDT document store

\* A newer test that also accepts a clock equal to the document's.
IsOperationNewerOrEqual(op_clock, doc_clock) ==
    \A d \in DOMAIN op_clock : ~(op_clock[d] < ClockGet(doc_clock, d))

\* SyncEngine._is_operation_newer: no entry of the operation's clock is below
\* the document's, and one is above it.  Only the operation's keys are read.
IsOperationNewer(op_clock, doc_clock) ==
    /\ \A d \in DOMAIN op_clock : ~(op_clock[d] < ClockGet(doc_clock, d))
    /\ \E d \in DOMAIN op_clock : op_clock[d] > ClockGet(doc_clock, d)

\* dict.update(other).
DictUpdate(content, other) ==
    [k \in DOMAIN content \cup DOMAIN other |->
        IF k \in DOMAIN other THEN other[k] ELSE content[k]]

\* datetime.fromtimestamp(t) returns (TRUE) or raises (FALSE).
FromTimestampOk(t) == t >= 1

\* A merge that stores the operation's value instead of the larger one.
MergeVectorClockAssign(vector_clock, op_clock) ==
    [d \in DOMAIN vector_clock \cup DOMAIN op_clock |->
        IF d \in DOMAIN op_clock THEN op_clock[d] ELSE vector_clock[d]]

\* The loop at the head of _apply_operation: the global clock takes, for each
\* key of the operation's clock, the maximum of both.
MergeVectorClock(vector_clock, op_clock) ==
    [d \in DOMAIN vector_clock \cup DOMAIN op_clock |->
        IF d \in DOMAIN op_clock
        THEN Max(ClockGet(vector_clock, d), op_clock[d])
        ELSE vector_clock[d]]

\* The CRDTDocument a create operation builds.
NewDocument(op) ==
    [ document_type |-> op.data.type,
      content       |-> op.data.content,
      vector_clock  |-> op.vector_clock,
      last_modified |-> op.timestamp,
      created_by    |-> op.device_id ]

\* An update that replaces the content by the payload.
UpdatedDocumentReplacesContent(doc, op) ==
    [ doc EXCEPT !.content = op.data.content,
                 !.vector_clock = op.vector_clock,
                 !.last_modified =
                     IF FromTimestampOk(op.timestamp) THEN op.timestamp ELSE @ ]

\* The update branch on an existing document that the operation is newer
\* than: content, then vector_clock, then last_modified are assigned in this
\* order, and fromtimestamp may raise before the last assignment.
UpdatedDocument(doc, op) ==
    [ doc EXCEPT !.content = DictUpdate(@, op.data.content),
                 !.vector_clock = op.vector_clock,
                 !.last_modified =
                     IF FromTimestampOk(op.timestamp) THEN op.timestamp ELSE @ ]

DocPut(docs, id, doc) ==
    [k \in DOMAIN docs \cup {id} |-> IF k = id THEN doc ELSE docs[k]]

DocDel(docs, id) == [k \in DOMAIN docs \ {id} |-> docs[k]]

\* An apply whose update branch inserts a missing document from the payload
\* without stamping it with the operation's clock.
ApplyToDocumentsUpsert(docs, op) ==
    LET id == op.document_id IN
    CASE op.operation_type = "create" ->
            IF id \notin DOMAIN docs /\ FromTimestampOk(op.timestamp)
            THEN DocPut(docs, id, NewDocument(op))
            ELSE docs
      [] op.operation_type = "update" ->
            IF id \notin DOMAIN docs
            THEN DocPut(docs, id, [NewDocument(op) EXCEPT !.vector_clock = EmptyMap])
            ELSE IF IsOperationNewer(op.vector_clock, docs[id].vector_clock)
            THEN DocPut(docs, id, UpdatedDocument(docs[id], op))
            ELSE docs
      [] op.operation_type = "delete" -> DocDel(docs, id)
      [] OTHER -> docs

\* The "Apply to document" part of _apply_operation on the documents dict.
ApplyToDocuments(docs, op) ==
    LET id == op.document_id IN
    CASE op.operation_type = "create" ->
            IF id \notin DOMAIN docs /\ FromTimestampOk(op.timestamp)
            THEN DocPut(docs, id, NewDocument(op))
            ELSE docs
      [] op.operation_type = "update" ->
            IF id \in DOMAIN docs /\ IsOperationNewer(op.vector_clock, docs[id].vector_clock)
            THEN DocPut(docs, id, UpdatedDocument(docs[id], op))
            ELSE docs
      [] op.operation_type = "delete" -> DocDel(docs, id)
      [] OTHER -> docs

\* Whether the "Apply to document" part raises: fromtimestamp is reached by a
\* create of an absent document and by an accepted update.
ApplyRaises(docs, op) ==
    LET id == op.document_id IN
    /\ ~FromTimestampOk(op.timestamp)
    /\ \/ op.operation_type = "create" /\ id \notin DOMAIN docs
       \/ /\ op.operation_type = "update"
          /\ id \in DOMAIN docs
          /\ IsOperationNewer(op.vector_clock, docs[id].vector_clock)

\* What _persist_document hands to the memory manager for a document.
PersistedItem(doc) ==
    [ item_type    |-> << "crdt_", doc.document_type >>,
      content      |-> doc.content,
      vector_clock |-> doc.vector_clock,
      created_by   |-> doc.created_by ]

\* _persist_document after the apply: reached only when nothing raised, and
\* it stores only a document that is (still) in the dict.
PersistDocument(store, docs, op) ==
    IF ~ApplyRaises(docs, op) /\ op.document_id \in DOMAIN ApplyToDocuments(docs, op)
    THEN DocPut(store, op.document_id,
                PersistedItem(ApplyToDocuments(docs, op)[op.document_id]))
    ELSE store

\* --------------------------------------------- signing and serialization
\* The mock keys of _generate_mock_keys: four independent os.urandom(32)
\* draws per device, so a device's signing public key is not its private key.
\* What os.urandom can return to _generate_mock_keys: the draw of a device's
\* first run, and others.
FirstKeys == "k1"
KeyDraws == {"k1", "k2"}

\* _generate_mock_keys: four fresh 32-byte values and the device id.
GenerateMockKeys(d, n) ==
    [ device_id           |-> d,
      public_key          |-> << "public_key", d, n >>,
      private_key         |-> << "private_key", d, n >>,
      signing_public_key  |-> << "signing_public_key", d, n >>,
      signing_private_key |-> << "signing_private_key", d, n >> ]

SigningPrivateKey(d) == <<"signing_private_key", d>>
SigningPublicKey(d) == <<"signing_public_key", d>>

\* A signature field holds None, bytes or (after a text transport) a string.
NoSignature == <<"none">>
IsBytes(signature) == signature[1] = "bytes"

\* hashlib.sha256(data + key).digest(): bytes, one value per (data, key).
Sha256(data, key) == <<"bytes", data, key>>
\* bytes.hex(): the same digest as a str, which never equals a bytes value.
Hex(digest) == <<"str", digest[2], digest[3]>>

\* json.dumps(asdict(operation)) raises TypeError when the signature is bytes.
JsonSerializable(op) == ~IsBytes(op.signature)
\* The text json.dumps(asdict(operation)) returns: every field, the
\* signature field included.
JsonDumps(op) ==
    << op.operation_id, op.device_id, op.document_id, op.operation_type,
       op.data, op.timestamp, op.vector_clock, op.signature >>

\* SecurityManager.sign_data
SignData(data, d) == Sha256(data, SigningPrivateKey(d))

\* SecurityManager.verify_signature against a trusted_devices dict.
VerifySignature(data, signature, device_id, trusted) ==
    /\ device_id \in DOMAIN trusted
    /\ signature = Sha256(data, trusted[device_id].signing_public_key)

\* The SyncOperation _create_sync_operation builds on device d whose clock
\* is already incremented: signed while its signature field is still None.
UnsignedOperation(d, clock, operation_type, document_id, content, now) ==
    [ operation_id   |-> <<d, clock[d]>>,
      device_id      |-> d,
      document_id    |-> document_id,
      operation_type |-> operation_type,
      data           |-> [document_id |-> document_id, type |-> "note",
                          content |-> content],
      timestamp      |-> now,
      vector_clock   |-> clock,
      signature      |-> NoSignature ]

SignedOperation(d, clock, operation_type, document_id, content, now) ==
    LET op == UnsignedOperation(d, clock, operation_type, document_id, content, now)
    IN  [op EXCEPT !.signature = SignData(JsonDumps(op), d)]

\* ------------------------------------------------------------------ state
VARIABLES
    state,              \* SyncEngine.state
    vector_clock,       \* SyncEngine.vector_clock: the global vector clock
    documents,          \* SyncEngine.documents: document_id -> CRDTDocument
    connected_devices,  \* SyncEngine.connected_devices: device_id -> DeviceInfo
    connections,        \* SyncEngine.connections: its keys, in insertion order
    services,           \* discovery_service and sync_server
    trusted_devices,    \* SecurityManager.trusted_devices
    trusted_file,       \* trusted_devices.json: what the last save that succeeded wrote
    session_keys,       \* SecurityManager.session_keys: its keys
    storage,            \* the memory manager's latest item per document_id
    net,                \* per device and peer, what connection.send was given last
    created,            \* per device, the operation it created last (if any)
    lastCall,           \* the handler that ran last and how it ended
    trial,              \* the call under test: its operation and the store before
    scenario,           \* how far the two-device exchange has got
    device_keys,        \* SecurityManager.device_keys: which os.urandom draw it holds
    keys_file           \* the file keys_dir/<device_id>.keys

vars == << state, vector_clock, documents, connected_devices, connections,
           services, trusted_devices, session_keys, trusted_file, storage, net, created,
           lastCall, trial, scenario, device_keys, keys_file >>

engineVars == << state, connected_devices, connections, services >>
securityVars == << trusted_devices, session_keys, trusted_file >>
identityVars == << device_keys, keys_file >>
storeVars == << vector_clock, documents, storage >>

Range(seq) == { seq[i] : i \in 1..Len(seq) }

\* A record of the handler that just ran on dev: how it ended, whether the
\* operation it was given would change the document store if it were applied,
\* whether verify_signature accepts that operation, and by how much the
\* handler raised metrics["sync_errors"] and metrics["permissions_granted"].
Call(name, dev, outcome, effective) ==
    [ name |-> name, dev |-> dev, outcome |-> outcome, effective |-> effective,
      verified |-> FALSE, sync_errors |-> 0, permissions_granted |-> 0 ]

\* The documents and global clock of device d, as one value.
Store(d) == [documents |-> documents[d], vector_clock |-> vector_clock[d]]

\* No call under test has been made.
NoTrial == [ step |-> 0, second |-> "none", op |-> EmptyMap, other |-> EmptyMap,
             before |-> EmptyMap, arg |-> "none", fault |-> "none" ]

\* Nothing of the two-device exchange has happened: no step of it taken, no
\* initial_sync message handled.
NoScenario == [step |-> 0, synced |-> {}]

\* The bookkeeping variables stay as they are, and the process is not
\* restarted: it holds the keys it has.
Idle == UNCHANGED << trial, scenario, identityVars >>

\* SyncEngine.__init__ and SecurityManager.__init__ / initialize on a device
\* with no persisted trust and no keys file: keys are generated and the file
\* is written.
Init ==
    /\ state = [d \in Devices |-> "stopped"]
    /\ vector_clock = [d \in Devices |-> [k \in {d} |-> 0]]
    /\ documents = [d \in Devices |-> EmptyMap]
    /\ connected_devices = [d \in Devices |-> EmptyMap]
    /\ connections = [d \in Devices |-> << >>]
    /\ services = [d \in Devices |-> [discovery |-> "none", server |-> "none"]]
    /\ trusted_devices = [d \in Devices |-> EmptyMap]
    /\ trusted_file = [d \in Devices |-> EmptyMap]
    /\ session_keys = [d \in Devices |-> {}]
    /\ storage = [d \in Devices |-> EmptyMap]
    /\ net = [d \in Devices |-> EmptyMap]
    /\ created = [d \in Devices |-> << >>]
    /\ lastCall = Call("init", "A", "ok", FALSE)
    /\ trial = NoTrial
    /\ scenario = NoScenario
    /\ device_keys = [d \in Devices |-> FirstKeys]
    /\ keys_file = [d \in Devices |-> "intact"]

\* ----------------------------------------------------------- _apply_operation
\* The effect of SyncEngine._apply_operation(op) on device d: the global
\* clock (clock, when the caller has just incremented it) is merged first,
\* then the document dict is changed, then the document is persisted; an
\* exception inside is caught and counted.
ApplyOperation(d, clock, op) ==
    /\ vector_clock' = [vector_clock EXCEPT ![d] = MergeVectorClock(clock, op.vector_clock)]
    /\ documents' = [documents EXCEPT ![d] = ApplyToDocuments(@, op)]
    /\ storage' = [storage EXCEPT ![d] = PersistDocument(@, documents[d], op)]

\* Whether applying op on d would change d's documents or global clock.
Effective(d, op) ==
    \/ ApplyToDocuments(documents[d], op) # documents[d]
    \/ MergeVectorClock(vector_clock[d], op.vector_clock) # vector_clock[d]

\* ------------------------------------------------------------- _send_message
\* The initial_sync message of _initial_sync: the global clock and a summary
\* of every document.
InitialSyncMessage(d) ==
    [ type         |-> "initial_sync",
      vector_clock |-> vector_clock[d],
      documents    |-> { [ id |-> id,
                           type |-> documents[d][id].document_type,
                           vector_clock |-> documents[d][id].vector_clock,
                           last_modified |-> documents[d][id].last_modified ]
                         : id \in DOMAIN documents[d] } ]

\* _send_message(peer, message) gets as far as connection.send exactly when
\* the peer has a connection, the message is JSON-serializable and
\* encrypt_for_device finds a session key; otherwise it raises.
CanSend(d, conns, peer, serializable) ==
    /\ peer \in Range(conns)
    /\ serializable
    /\ peer \in session_keys[d]

\* _broadcast_operation: one _send_message per connection, each in its own
\* try/except.  The message embeds asdict(operation).  The result is d's
\* outgoing messages afterwards.
BroadcastOperation(d, op) ==
    LET reached == { q \in Range(connections[d]) :
                       CanSend(d, connections[d], q, JsonSerializable(op)) }
    IN  [q \in DOMAIN net[d] \cup reached |->
            IF q \in reached
            THEN [type |-> "sync_operation", body |-> op]
            ELSE net[d][q]]

\* ---------------------------------------------------------------- SyncEngine

\* The sample document _load_documents installs on every start.
PreferencesDocument(d, now) ==
    [ document_type |-> "preferences",
      content       |-> [k \in {"theme", "language"} |->
                            IF k = "theme" THEN "dark" ELSE "en"],
      vector_clock  |-> [k \in {d} |-> 1],
      last_modified |-> now,
      created_by    |-> d ]

\* SyncEngine.start with sync enabled: documents loaded, discovery and the
\* sync server started, state DISCOVERING.  Nothing in it suspends or fails.
Start(d) ==
    \E now \in ClockReadings :
        /\ state' = [state EXCEPT ![d] = "discovering"]
        /\ documents' = [documents EXCEPT ![d] =
                            DocPut(@, "preferences_user", PreferencesDocument(d, now))]
        /\ services' = [services EXCEPT ![d] =
                            [discovery |-> "running", server |-> "running"]]
        /\ lastCall' = Call("start", d, "ok", FALSE)
        /\ UNCHANGED << vector_clock, connected_devices, connections,
                        trusted_devices, session_keys, trusted_file, storage, net, created >>

\* SyncEngine.stop: the state is set first; the loop over connections.items()
\* deletes from the dict it iterates, so after closing the first connection
\* the for statement raises RuntimeError and the services are not stopped.
Stop(d) ==
    /\ state' = [state EXCEPT ![d] = "stopped"]
    /\ IF connections[d] # << >>
       THEN /\ connections' = [connections EXCEPT ![d] = Tail(@)]
            /\ lastCall' = Call("stop", d, "raised", FALSE)
            /\ UNCHANGED services
       ELSE /\ services' = [services EXCEPT ![d] =
                   [discovery |-> IF @.discovery = "none" THEN "none" ELSE "stopped",
                    server    |-> IF @.server = "none" THEN "none" ELSE "stopped"]]
            /\ lastCall' = Call("stop", d, "ok", FALSE)
            /\ UNCHANGED connections
    /\ UNCHANGED << vector_clock, documents, connected_devices, trusted_devices,
                    session_keys, trusted_file, storage, net, created >>

\* SyncEngine.add_device(DeviceInfo(device_id = id, is_trusted = is_trusted)).
\* With is_trusted it goes on to _connect_to_device and _initial_sync, whose
\* _send_message raises (and is logged) when there is no session key.
AddDevice(d, id, is_trusted) ==
    IF id = d
    THEN /\ lastCall' = Call("add_device", d, "self", FALSE)
         /\ UNCHANGED << state, vector_clock, documents, connected_devices,
                         connections, services, trusted_devices, session_keys, trusted_file,
                         storage, net, created >>
    ELSE LET conns == IF is_trusted /\ id \notin Range(connections[d])
                      THEN Append(connections[d], id)
                      ELSE connections[d]
             clock == IF id \in DOMAIN vector_clock[d]
                      THEN vector_clock[d]
                      ELSE [k \in DOMAIN vector_clock[d] \cup {id} |->
                              IF k = id THEN 0 ELSE vector_clock[d][k]]
             sent  == is_trusted /\ CanSend(d, conns, id, TRUE)
         IN  /\ connected_devices' = [connected_devices EXCEPT ![d] =
                    DocPut(@, id, [is_trusted |-> is_trusted])]
             /\ vector_clock' = [vector_clock EXCEPT ![d] = clock]
             /\ connections' = [connections EXCEPT ![d] = conns]
             /\ net' = IF sent
                       THEN [net EXCEPT ![d] =
                               DocPut(@, id, [type |-> "initial_sync",
                                              body |-> [InitialSyncMessage(d) EXCEPT
                                                          !.vector_clock = clock]])]
                       ELSE net
             /\ lastCall' = Call("add_device", d,
                                 IF sent THEN "synced"
                                 ELSE IF is_trusted THEN "connected" ELSE "added",
                                 FALSE)
             /\ UNCHANGED << state, documents, services, trusted_devices,
                             session_keys, trusted_file, storage, created >>

\* _close_connection on the connections dict.
CloseConnection(conns, id) == SelectSeq(conns, LAMBDA x : x # id)

\* A remove_device that forgets the peer and leaves its connection open.
RemoveDeviceKeepsConnection(d, id) ==
    /\ IF id \in DOMAIN connected_devices[d]
       THEN /\ connected_devices' = [connected_devices EXCEPT ![d] = DocDel(@, id)]
            /\ lastCall' = Call("remove_device", d, "removed", FALSE)
            /\ UNCHANGED connections
       ELSE /\ lastCall' = Call("remove_device", d, "unknown", FALSE)
            /\ UNCHANGED << connected_devices, connections >>
    /\ UNCHANGED << state, vector_clock, documents, services, securityVars,
                    storage, net, created >>

\* SyncEngine.remove_device
RemoveDevice(d, id) ==
    /\ IF id \in DOMAIN connected_devices[d]
       THEN /\ connected_devices' = [connected_devices EXCEPT ![d] = DocDel(@, id)]
            /\ connections' = [connections EXCEPT ![d] = CloseConnection(@, id)]
            /\ lastCall' = Call("remove_device", d, "removed", FALSE)
       ELSE /\ lastCall' = Call("remove_device", d, "unknown", FALSE)
            /\ UNCHANGED << connected_devices, connections >>
    /\ UNCHANGED << state, vector_clock, documents, services, trusted_devices,
                    session_keys, trusted_file, storage, net, created >>

\* A local write that skips a clock value.
IncrementOwnTwice(clock, d) == [clock EXCEPT ![d] = @ + 2]

\* "self.vector_clock[self.device_id] += 1"
IncrementOwn(clock, d) == [clock EXCEPT ![d] = @ + 1]

\* SyncEngine._create_sync_operation(operation_type, data), the body of
\* sync_document and of _handle_memory_write: own clock entry + 1, the
\* operation stamped with a copy of the global clock and signed, applied
\* locally, then broadcast.
CreateSyncOperation(d, operation_type, document_id, content) ==
    \E now \in ClockReadings :
        LET clock == IncrementOwn(vector_clock[d], d)
            op    == SignedOperation(d, clock, operation_type, document_id, content, now)
        IN  /\ vector_clock[d][d] < MaxClock
            /\ ApplyOperation(d, clock, op)
            /\ net' = [net EXCEPT ![d] = BroadcastOperation(d, op)]
            /\ created' = [created EXCEPT ![d] = << op >>]
            /\ lastCall' = Call("create_sync_operation", d, "ok", FALSE)
            /\ UNCHANGED << engineVars, securityVars >>

\* ------------------------------------------------------------ SecurityManager

\* bytes.hex() of a key, as _save_trusted_devices writes it, and
\* bytes.fromhex() of it, as _load_trusted_devices reads it.
KeyHex(key) == << "hex", key >>
KeyFromHex(text) == text[2]

\* PermissionLevel.value, as it is written, and PermissionLevel(value), as it
\* is read back.
PermissionLevels == {"none", "read", "write", "admin"}
Capabilities == {"mic", "camera"}
LevelValue(level) == << "value", level >>
PermissionLevelOf(value) == value[2]

\* TrustedDevice as trust_device builds it: the signing key it was given and
\* one Permission per capability.
TrustedDevice(signing_public_key, permissions) ==
    [ signing_public_key |-> signing_public_key, permissions |-> permissions ]

\* A save that leaves the permissions out of the file.
SaveTrustedDevicesWithoutPermissions(trusted) ==
    [id \in DOMAIN trusted |->
        [ signing_public_key |-> KeyHex(trusted[id].signing_public_key),
          permissions        |-> EmptyMap ]]

\* _save_trusted_devices: the whole dict goes to trusted_devices.json.
SaveTrustedDevices(trusted) ==
    [id \in DOMAIN trusted |->
        [ signing_public_key |-> KeyHex(trusted[id].signing_public_key),
          permissions        |-> [c \in DOMAIN trusted[id].permissions |->
                                     LevelValue(trusted[id].permissions[c])] ]]

\* _load_trusted_devices
LoadTrustedDevices(file) ==
    [id \in DOMAIN file |->
        TrustedDevice(KeyFromHex(file[id].signing_public_key),
                      [c \in DOMAIN file[id].permissions |->
                          PermissionLevelOf(file[id].permissions[c])])]


\* SecurityManager.trust_device: the device is registered with the signing
\* public key it was paired with, and a session key is generated for it.
TrustDevice(d, id) ==
    /\ trusted_devices' = [trusted_devices EXCEPT ![d] =
            DocPut(@, id, TrustedDevice(SigningPublicKey(id), EmptyMap))]
    /\ session_keys' = [session_keys EXCEPT ![d] = @ \cup {id}]
    /\ trusted_file' = [trusted_file EXCEPT ![d] = SaveTrustedDevices(trusted_devices'[d])]
    /\ lastCall' = Call("trust_device", d, "ok", FALSE)
    /\ UNCHANGED << engineVars, storeVars, net, created >>

\* An untrust_device that forgets the device and leaves its session key.
UntrustDeviceKeepsSession(d, id) ==
    /\ IF id \in DOMAIN trusted_devices[d]
       THEN /\ trusted_devices' = [trusted_devices EXCEPT ![d] = DocDel(@, id)]
            /\ trusted_file' = [trusted_file EXCEPT ![d] = SaveTrustedDevices(trusted_devices'[d])]
            /\ lastCall' = Call("untrust_device", d, "removed", FALSE)
            /\ UNCHANGED session_keys
       ELSE /\ lastCall' = Call("untrust_device", d, "unknown", FALSE)
            /\ UNCHANGED securityVars
    /\ UNCHANGED << engineVars, storeVars, net, created >>

\* An untrust_device that drops the session key and leaves the device trusted.
UntrustDeviceKeepsTrust(d, id) ==
    /\ session_keys' = [session_keys EXCEPT ![d] = @ \ {id}]
    /\ lastCall' = Call("untrust_device", d, "removed", FALSE)
    /\ UNCHANGED << trusted_devices, trusted_file, engineVars, storeVars, net, created >>

\* SecurityManager.untrust_device
UntrustDevice(d, id) ==
    /\ IF id \in DOMAIN trusted_devices[d]
       THEN /\ trusted_devices' = [trusted_devices EXCEPT ![d] = DocDel(@, id)]
            /\ session_keys' = [session_keys EXCEPT ![d] = @ \ {id}]
            /\ trusted_file' = [trusted_file EXCEPT ![d] = SaveTrustedDevices(trusted_devices'[d])]
            /\ lastCall' = Call("untrust_device", d, "removed", FALSE)
       ELSE /\ lastCall' = Call("untrust_device", d, "unknown", FALSE)
            /\ UNCHANGED securityVars
    /\ UNCHANGED << engineVars, storeVars, net, created >>

\* trust_device when writing trusted_devices.json fails: _save_trusted_devices
\* catches and logs the exception, and trust_device returns True.
TrustDeviceUnsaved(d, id) ==
    /\ trusted_devices' = [trusted_devices EXCEPT ![d] =
            DocPut(@, id, TrustedDevice(SigningPublicKey(id), EmptyMap))]
    /\ session_keys' = [session_keys EXCEPT ![d] = @ \cup {id}]
    /\ lastCall' = Call("trust_device", d, "ok", FALSE)
    /\ UNCHANGED << trusted_file, engineVars, storeVars, net, created >>

\* grant_permission(id, capability, level): a warning and the return value
\* False for a device that is not trusted (outcome "untrusted"; nothing is
\* raised); otherwise the level is set, the metric counted and the dict saved.
GrantPermission(d, id, capability, level) ==
    /\ IF id \in DOMAIN trusted_devices[d]
       THEN /\ trusted_devices' = [trusted_devices EXCEPT ![d][id].permissions =
                                      DocPut(@, capability, level)]
            /\ trusted_file' = [trusted_file EXCEPT ![d] = SaveTrustedDevices(trusted_devices'[d])]
            /\ lastCall' = [Call("grant_permission", d, "ok", FALSE)
                               EXCEPT !.permissions_granted = 1]
       ELSE /\ lastCall' = Call("grant_permission", d, "untrusted", FALSE)
            /\ UNCHANGED << trusted_devices, trusted_file >>
    /\ UNCHANGED << session_keys, engineVars, storeVars, net, created >>

\* revoke_permission(id, capability)
RevokePermission(d, id, capability) ==
    /\ IF id \in DOMAIN trusted_devices[d]
       THEN /\ trusted_devices' = [trusted_devices EXCEPT ![d][id].permissions =
                                      DocDel(@, capability)]
            /\ trusted_file' = [trusted_file EXCEPT ![d] = SaveTrustedDevices(trusted_devices'[d])]
            /\ lastCall' = Call("revoke_permission", d, "ok", FALSE)
       ELSE /\ lastCall' = Call("revoke_permission", d, "untrusted", FALSE)
            /\ UNCHANGED << trusted_devices, trusted_file >>
    /\ UNCHANGED << session_keys, engineVars, storeVars, net, created >>

\* A check that is satisfied by any level stored for the capability.
CheckPermissionAnyLevel(trusted, id, capability, required_level) ==
    /\ id \in DOMAIN trusted
    /\ capability \in DOMAIN trusted[id].permissions

\* level_hierarchy of check_permission and list.index on it.
LevelHierarchy == << "none", "read", "write", "admin" >>
LevelIndex(level) == CHOOSE i \in 1..Len(LevelHierarchy) : LevelHierarchy[i] = level

\* check_permission(id, capability, required_level): False for a device that
\* is not trusted and for a capability with no Permission; otherwise the
\* indexes in the hierarchy are compared.
CheckPermission(trusted, id, capability, required_level) ==
    /\ id \in DOMAIN trusted
    /\ capability \in DOMAIN trusted[id].permissions
    /\ LevelIndex(trusted[id].permissions[capability]) >= LevelIndex(required_level)

\* A call of check_permission on d; it changes nothing but a metric.
CheckPermissionCall(d, id, capability, required_level) ==
    /\ lastCall' = Call("check_permission", d,
                        IF CheckPermission(trusted_devices[d], id, capability, required_level)
                        THEN "true" ELSE "false",
                        FALSE)
    /\ UNCHANGED << securityVars, engineVars, storeVars, net, created >>

\* ------------------------------------------------------ inbound operations

\* An inbound handler that applies whatever deserializes.
SyncOutcomeUnverified(d, op) ==
    IF ~JsonSerializable(op) THEN "raised" ELSE "applied"

\* How _apply_sync_operation ends for a well-formed operation dict:
\* json.dumps raises on a bytes signature before verify_signature is called;
\* a failed verification returns; otherwise the operation is applied.
SyncOutcome(d, op) ==
    IF ~JsonSerializable(op) THEN "raised"
    ELSE IF ~VerifySignature(JsonDumps(op), op.signature, op.device_id,
                             trusted_devices[d])
    THEN "invalid_signature"
    ELSE "applied"

\* What _apply_sync_operation adds to metrics["sync_errors"]: one in its own
\* except clause, one in that of _apply_operation, and nothing on the return
\* after a failed verification.
SyncErrors(d, op) ==
    CASE SyncOutcome(d, op) = "raised" -> 1
      [] SyncOutcome(d, op) = "invalid_signature" -> 0
      [] OTHER -> IF ApplyRaises(documents[d], op) THEN 1 ELSE 0

\* SyncEngine._handle_sync_delta / _apply_sync_operation(operation_data) for a
\* payload that is the keyword set of a SyncOperation.
ApplySyncOperation(d, op) ==
    /\ IF SyncOutcome(d, op) = "applied"
       THEN ApplyOperation(d, vector_clock[d], op)
       ELSE UNCHANGED storeVars
    /\ lastCall' = [ Call("apply_sync_operation", d, SyncOutcome(d, op), Effective(d, op))
                       EXCEPT !.verified =
                           VerifySignature(JsonDumps(op), op.signature, op.device_id,
                                           trusted_devices[d]),
                              !.sync_errors = SyncErrors(d, op) ]
    /\ UNCHANGED << engineVars, securityVars, net, created >>

\* _apply_sync_operation for a payload that is no SyncOperation keyword set
\* (any other message): SyncOperation(**payload) raises TypeError.  This is
\* the only inbound handler, so the message peer p sent to d ends here.
ApplyMalformed(d, p) ==
    /\ p \in Devices => d \in DOMAIN net[p] /\ net[p][d].type # "sync_operation"
    /\ net' = IF p \in Devices THEN [net EXCEPT ![p] = DocDel(@, d)] ELSE net
    /\ lastCall' = [Call("apply_sync_operation", d, "malformed", FALSE)
                       EXCEPT !.sync_errors = 1]
    /\ UNCHANGED << engineVars, securityVars, storeVars, created >>

\* --------------------------------------------------------- the environment

\* The ways a peer's operation reaches _handle_sync_delta: as the object it
\* is (bytes signature), or through a text transport (hex signature).
Encodings(op) == { op, [op EXCEPT !.signature = Hex(@)] }

\* Operations the peers of d have created, as the transport hands them over.
PeerOperations(d) ==
    UNION { UNION { Encodings(created[p][i]) : i \in 1..Len(created[p]) }
            : p \in Devices \ {d} }

\* The signature fields a sender can put on an operation without the private
\* key of its claimed origin: none, or a digest keyed with the origin's
\* (public) signing key over the operation as signed, as bytes or as hex; and
\* the one the origin itself would produce.
Signatures(op) ==
    LET unsigned == [op EXCEPT !.signature = NoSignature] IN
    { NoSignature,
      Sha256(JsonDumps(unsigned), SigningPublicKey(op.device_id)),
      Hex(Sha256(JsonDumps(unsigned), SigningPublicKey(op.device_id))),
      SignData(JsonDumps(unsigned), op.device_id),
      Hex(SignData(JsonDumps(unsigned), op.device_id)) }

\* Operations of the given types, payloads and clocks that claim origin o,
\* under every signature field a sender can give them.
OperationsFrom(o, types, payloads, clocks, times) ==
    UNION { { [ UnsignedOperation(o, [k \in {o} |-> 1], t, id, c, now)
                  EXCEPT !.vector_clock = clock, !.signature = sig ]
              : sig \in Signatures([ UnsignedOperation(o, [k \in {o} |-> 1], t, id, c, now)
                                       EXCEPT !.vector_clock = clock ]) }
            : t \in types, id \in DocIds, c \in payloads,
              clock \in clocks, now \in times }

\* What the network can hand to device d besides its peers' own operations:
\* operations of every type claiming another origin, whose clock carries a
\* value for d itself above d's own.
ForeignOperations(d) ==
    UNION { OperationsFrom(o, OperationTypes, { [k \in {"text"} |-> "hi all"] },
                           { [k \in {o, d} |-> IF k = d THEN MaxClock + 1 ELSE 1] },
                           {1})
            : o \in DeviceIds \ {d} }

\* ------------------------------------------------------------ specification
\* One device, A, with its users and its network.
Next ==
    \/ Start("A") /\ Idle
    \/ Stop("A") /\ Idle
    \/ \E id \in Devices, t \in BOOLEAN : AddDevice("A", id, t) /\ Idle
    \/ \E id \in Devices : RemoveDevice("A", id) /\ Idle
    \/ \E id \in Devices \ {"A"} : TrustDevice("A", id) /\ Idle
    \/ \E id \in Devices : UntrustDevice("A", id) /\ Idle
    \/ \E t \in OperationTypes, id \in DocIds, c \in WritePayloads :
          CreateSyncOperation("A", t, id, c) /\ Idle
    \/ \E op \in ForeignOperations("A") \cup PeerOperations("A") :
          ApplySyncOperation("A", op) /\ Idle
    \/ \E p \in DeviceIds \ {"A"} : ApplyMalformed("A", p) /\ Idle

Spec == Init /\ [][Next]_vars

\* ------------------------------------------------- the document store alone
\* Device A's store starts in any state a sequence of applied operations can
\* leave it in, and one call is made on it: _apply_operation with any
\* operation (as after a successful verification), a local write, start,
\* stop, add_device or remove_device; an applied operation may then be applied
\* once more.
DrawnClocks == ClocksOver(Devices, MaxDrawn)
DrawnContents == Payloads \cup { DictUpdate(p, q) : p, q \in Payloads }
DrawnDocuments ==
    { EmptyMap } \cup
    { [id \in DocIds |->
          [ document_type |-> "note", content |-> c, vector_clock |-> clock,
            last_modified |-> 1, created_by |-> "A" ]]
      : c \in DrawnContents, clock \in DrawnClocks }
DrawnOperations ==
    { [ UnsignedOperation(o, [k \in {o} |-> 1], t, id, c, now)
          EXCEPT !.vector_clock = clock ]
      : o \in Devices, t \in OperationTypes, id \in DocIds, c \in Payloads,
        clock \in DrawnClocks, now \in Timestamps }

ApplyInit ==
    /\ state = [d \in Devices |-> "stopped"]
    /\ \E docs \in DrawnDocuments :
          /\ documents = [d \in Devices |-> IF d = "A" THEN docs ELSE EmptyMap]
          /\ storage = [d \in Devices |->
                          IF d = "A"
                          THEN [id \in DOMAIN docs |-> PersistedItem(docs[id])]
                          ELSE EmptyMap]
    /\ \E clock \in DrawnClocks :
          /\ "A" \in DOMAIN clock
          /\ vector_clock = [d \in Devices |-> IF d = "A" THEN clock ELSE [k \in {d} |-> 0]]
    /\ connected_devices = [d \in Devices |-> EmptyMap]
    /\ connections = [d \in Devices |-> << >>]
    /\ services = [d \in Devices |-> [discovery |-> "none", server |-> "none"]]
    /\ trusted_devices = [d \in Devices |-> EmptyMap]
    /\ trusted_file = [d \in Devices |-> EmptyMap]
    /\ session_keys = [d \in Devices |-> {}]
    /\ net = [d \in Devices |-> EmptyMap]
    /\ created = [d \in Devices |-> << >>]
    /\ lastCall = Call("init", "A", "ok", FALSE)
    /\ trial = NoTrial
    /\ scenario = NoScenario
    /\ device_keys = [d \in Devices |-> FirstKeys]
    /\ keys_file = [d \in Devices |-> "intact"]

\* SyncEngine._apply_operation(op) called on device A.
TrialApply(op) ==
    /\ trial.step = 0
    /\ ApplyOperation("A", vector_clock["A"], op)
    /\ trial' = [NoTrial EXCEPT !.step = 1, !.op = op, !.before = Store("A")]
    /\ lastCall' = Call("apply_operation", "A",
                        IF ApplyRaises(documents["A"], op) THEN "raised" ELSE "ok",
                        Effective("A", op))
    /\ UNCHANGED << engineVars, securityVars, net, created, scenario, identityVars >>

\* The same operation handed to _apply_operation a second time.
TrialReplay ==
    /\ trial.step = 1
    /\ lastCall.name = "apply_operation"
    /\ ApplyOperation("A", vector_clock["A"], trial.op)
    /\ trial' = [trial EXCEPT !.step = 2, !.second = "replay"]
    /\ lastCall' = Call("apply_operation", "A",
                        IF ApplyRaises(documents["A"], trial.op) THEN "raised" ELSE "ok",
                        Effective("A", trial.op))
    /\ UNCHANGED << engineVars, securityVars, net, created, scenario, identityVars >>

\* Clock a is at least clock b in every entry (a missing entry reads 0).
Dominates(a, b) ==
    \A k \in DOMAIN a \cup DOMAIN b : ClockGet(a, k) >= ClockGet(b, k)

\* Two operations that do not conflict: created by different devices, neither
\* clock at least the other, payloads over different fields.
NonConflicting(a, b) ==
    /\ a.device_id # b.device_id
    /\ ~Dominates(a.vector_clock, b.vector_clock)
    /\ ~Dominates(b.vector_clock, a.vector_clock)
    /\ DOMAIN a.data.content \cap DOMAIN b.data.content = {}

\* A second operation on the same document, which existed at the start, not
\* conflicting with the first, handed to _apply_operation after it.
TrialOther(op) ==
    /\ trial.step = 1
    /\ lastCall.name = "apply_operation"
    /\ op.document_id = trial.op.document_id
    /\ op.document_id \in DOMAIN trial.before.documents
    /\ FromTimestampOk(trial.op.timestamp) /\ FromTimestampOk(op.timestamp)
    /\ NonConflicting(trial.op, op)
    /\ ApplyOperation("A", vector_clock["A"], op)
    /\ trial' = [trial EXCEPT !.step = 2, !.second = "other", !.other = op]
    /\ lastCall' = Call("apply_operation", "A", "ok", Effective("A", op))
    /\ UNCHANGED << engineVars, securityVars, net, created, scenario, identityVars >>

\* An engine call of another kind is made on the drawn store.
TrialCall ==
    /\ trial.step = 0
    /\ trial' = [NoTrial EXCEPT !.step = 1, !.before = Store("A")]
    /\ UNCHANGED << scenario, identityVars >>

ApplyNext ==
    \/ \E op \in DrawnOperations : TrialApply(op)
    \/ TrialReplay
    \/ \E t \in OperationTypes, id \in DocIds, c \in WritePayloads :
          TrialCall /\ CreateSyncOperation("A", t, id, c)
    \/ \E id \in Devices, t \in BOOLEAN : TrialCall /\ AddDevice("A", id, t)
    \/ \E id \in Devices : TrialCall /\ RemoveDevice("A", id)
    \/ TrialCall /\ Start("A")
    \/ TrialCall /\ Stop("A")

ApplySpec == ApplyInit /\ [][ApplyNext]_vars

\* The same store with two operations applied one after the other.
OrderNext ==
    \/ \E op \in DrawnOperations : TrialApply(op)
    \/ \E op \in DrawnOperations : TrialOther(op)

OrderSpec == ApplyInit /\ [][OrderNext]_vars

\* ------------------------------------------------------------ late replays
\* Device A's store, empty or holding note1 as a create by A left it, is
\* handed an operation, then another operation on the same document, then
\* the first one again.
ReplayOperations ==
    { op \in DrawnOperations :
        FromTimestampOk(op.timestamp) /\ op.data.content \in WritePayloads }

\* _apply_operation with a create by A, before the operation under test.
TrialSeed(op) ==
    /\ trial.step = 0
    /\ documents["A"] = EmptyMap
    /\ lastCall.name = "init"
    /\ op.operation_type = "create" /\ op.device_id = "A"
    /\ op.vector_clock = [k \in {"A"} |-> 1]
    /\ ApplyOperation("A", vector_clock["A"], op)
    /\ lastCall' = Call("apply_operation", "A", "ok", Effective("A", op))
    /\ UNCHANGED << engineVars, securityVars, net, created, trial, scenario, identityVars >>

\* Another operation handed to _apply_operation after the one under test.
TrialBetween(op) ==
    /\ trial.step = 1
    /\ lastCall.name = "apply_operation"
    /\ ApplyOperation("A", vector_clock["A"], op)
    /\ trial' = [trial EXCEPT !.step = 2, !.second = "between", !.other = op]
    /\ lastCall' = Call("apply_operation", "A", "ok", Effective("A", op))
    /\ UNCHANGED << engineVars, securityVars, net, created, scenario, identityVars >>

\* The operation under test handed to _apply_operation again, after the
\* other one.
TrialReplayLater ==
    /\ trial.step = 2
    /\ trial.second = "between"
    /\ ApplyOperation("A", vector_clock["A"], trial.op)
    /\ trial' = [trial EXCEPT !.step = 3, !.second = "replay_later"]
    /\ lastCall' = Call("apply_operation", "A", "ok", Effective("A", trial.op))
    /\ UNCHANGED << engineVars, securityVars, net, created, scenario, identityVars >>

ReplayNext ==
    \/ \E op \in ReplayOperations : TrialSeed(op)
    \/ \E op \in ReplayOperations : TrialApply(op)
    \/ \E op \in ReplayOperations : TrialBetween(op)
    \/ TrialReplayLater

ReplaySpec == Init /\ [][ReplayNext]_vars

\* -------------------------------------------------------------- two devices
\* Devices A and B, both fresh, pair with each other, write note1 and hand
\* each other what they produce.  The transport is taken to deliver whatever
\* was given to connection.send, and every operation a device created, to the
\* peer's inbound handler.
Peer(d) == IF d = "A" THEN "B" ELSE "A"

ScenarioTypes == {"create", "update"}

\* The exchange: (1) A creates note1 {text: "hi"}; (2) B, trusting A, is
\* handed that operation; (3) B updates note1 to {text: "hi all"}; (4) A,
\* trusting B, is handed that operation.  No other write or delivery is made
\* (step -1 marks one).
AfterWrite(d, operation_type, content) ==
    IF /\ scenario.step = 0 /\ d = "A" /\ operation_type = "create"
       /\ content = [k \in {"text"} |-> "hi"]
    THEN 1
    ELSE IF /\ scenario.step = 2 /\ d = "B" /\ operation_type = "update"
            /\ content = [k \in {"text"} |-> "hi all"]
    THEN 3
    ELSE -1

AfterDelivery(d, op) ==
    IF /\ scenario.step = 1 /\ d = "B" /\ "A" \in DOMAIN trusted_devices["B"]
       /\ op.device_id = "A"
    THEN 2
    ELSE IF /\ scenario.step = 3 /\ d = "A" /\ "B" \in DOMAIN trusted_devices["A"]
            /\ op.device_id = "B"
    THEN 4
    ELSE -1

\* SyncEngine.start on d; what an earlier initial sync covered is out of date.
PairStart(d) ==
    /\ Start(d)
    /\ scenario' = [scenario EXCEPT !.synced = {}]
    /\ UNCHANGED << trial, identityVars >>

\* The local write of note1 on d that the exchange has next.
PairWrite(d, operation_type, content) ==
    /\ AfterWrite(d, operation_type, content) # -1
    /\ CreateSyncOperation(d, operation_type, "note1", content)
    /\ scenario' = [step |-> AfterWrite(d, operation_type, content), synced |-> {}]
    /\ UNCHANGED << trial, identityVars >>

\* The operation the peer created last reaches d's _apply_sync_operation,
\* when the exchange has that next.
PairDeliver(d, op) ==
    /\ AfterDelivery(d, op) # -1
    /\ ApplySyncOperation(d, op)
    /\ scenario' = [scenario EXCEPT !.step = AfterDelivery(d, op)]
    /\ UNCHANGED << trial, identityVars >>

\* The message the peer sent to d last reaches d's inbound handler.
PairHandle(d) ==
    /\ ApplyMalformed(d, Peer(d))
    /\ scenario' = [scenario EXCEPT !.synced =
                      IF net[Peer(d)][d].type = "initial_sync"
                      THEN @ \cup { << Peer(d), d >> } ELSE @]
    /\ UNCHANGED << trial, identityVars >>

PairNext ==
    \/ \E d \in Devices : PairStart(d)
    \/ \E d \in Devices : TrustDevice(d, Peer(d)) /\ Idle
    \/ \E d \in Devices : AddDevice(d, Peer(d), TRUE) /\ Idle
    \/ \E d \in Devices, t \in ScenarioTypes, c \in WritePayloads : PairWrite(d, t, c)
    \/ \E d \in Devices : \E op \in PeerOperations(d) : PairDeliver(d, op)
    \/ \E d \in Devices : PairHandle(d)

PairSpec == Init /\ [][PairNext]_vars

\* ------------------------------------------------------ restart and identity

\* _load_or_generate_device_keys with the keys file in condition file and n
\* what os.urandom returns: an existing file is opened and not read (and when
\* opening fails the exception is caught), a missing one is written; the keys
\* are generated in every case.
LoadOrGenerateDeviceKeys(file, n) ==
    [ device_keys |-> n,
      keys_file   |-> IF file = "absent" THEN "intact" ELSE file,
      outcome     |-> "ok" ]

\* A new process on device d, as the application's startup builds it:
\* SecurityManager.__init__ and initialize, then SyncEngine.__init__.  Trust
\* is read back from trusted_devices.json; session keys, connections,
\* documents and the global clock start empty; what the memory manager stored
\* stays on disk.
Initialize(d) ==
    \E n \in KeyDraws :
        LET loaded == LoadOrGenerateDeviceKeys(keys_file[d], n) IN
        /\ device_keys' = [device_keys EXCEPT ![d] = loaded.device_keys]
        /\ keys_file' = [keys_file EXCEPT ![d] = loaded.keys_file]
        /\ trusted_devices' = [trusted_devices EXCEPT ![d] =
                                  LoadTrustedDevices(trusted_file[d])]
        /\ session_keys' = [session_keys EXCEPT ![d] = {}]
        /\ state' = [state EXCEPT ![d] = "stopped"]
        /\ vector_clock' = [vector_clock EXCEPT ![d] = [k \in {d} |-> 0]]
        /\ documents' = [documents EXCEPT ![d] = EmptyMap]
        /\ connected_devices' = [connected_devices EXCEPT ![d] = EmptyMap]
        /\ connections' = [connections EXCEPT ![d] = << >>]
        /\ services' = [services EXCEPT ![d] = [discovery |-> "none", server |-> "none"]]
        /\ lastCall' = Call("initialize", d, loaded.outcome, FALSE)
        /\ UNCHANGED << trusted_file, storage, net, created >>

\* The keys file of d is lost or damaged while the process is down or up.
KeysFileConditions == {"absent", "corrupt"}
DamageKeysFile(d, condition) ==
    /\ keys_file' = [keys_file EXCEPT ![d] = condition]
    /\ lastCall' = Call("keys_file", d, condition, FALSE)
    /\ UNCHANGED << engineVars, securityVars, storeVars, net, created, device_keys >>

\* encrypt_for_device(data, id): raises without a session key for id, and
\* otherwise returns the data as it is.
EncryptForDevice(keys, data, id) ==
    IF id \notin keys THEN << "raised" >> ELSE data

\* Byte strings handed to sign_data and verify_signature.
Messages == {"m1", "m2"}

\* The signature arguments verify_signature can be given for data and a
\* claimed origin o: none; the one o's sign_data returns for data, and for
\* another message; a digest of data keyed with o's public signing key, or
\* with another device's; each as bytes or as hex text.
CandidateSignatures(data, o) ==
    LET digests == { SignData(m, o) : m \in Messages } \cup
                   { Sha256(data, SigningPublicKey(q)) : q \in DeviceIds }
    IN  { NoSignature } \cup digests \cup { Hex(x) : x \in digests }

\* A device_id argument that is no str but a JSON array, as a peer can put
\* in the device_id field of an operation: a list, which cannot be a dict key.
UnhashableId == << "list", "B" >>
Origins == DeviceIds \cup { UnhashableId }
Hashable(device_id) == device_id \in DeviceIds

\* How a call verify_signature(data, signature, device_id) ends: the
\* membership test on trusted_devices stands before the try and raises
\* TypeError for an unhashable device_id; otherwise the result is a bool.
VerifySignatureCall(data, signature, device_id, trusted) ==
    IF ~Hashable(device_id) THEN "raised"
    ELSE IF VerifySignature(data, signature, device_id, trusted) THEN "true"
    ELSE "false"

\* ------------------------------------------------ verify_signature alone
\* Device A trusts and untrusts its peers, and verify_signature is called
\* with any message, signature argument and origin; trial.op holds the
\* arguments of the call.
VerifyCall(d, data, signature, device_id) ==
    /\ lastCall' = Call("verify_signature", d,
                        VerifySignatureCall(data, signature, device_id, trusted_devices[d]),
                        FALSE)
    /\ trial' = [NoTrial EXCEPT !.op = [ data |-> data, signature |-> signature,
                                         device_id |-> device_id ]]
    /\ UNCHANGED << engineVars, securityVars, storeVars, net, created,
                    scenario, identityVars >>

VerifyNext ==
    \/ \E id \in DeviceIds \ {"A"} : TrustDevice("A", id) /\ Idle
    \/ \E id \in DeviceIds \ {"A"} : UntrustDevice("A", id) /\ Idle
    \/ \E data \in Messages, device_id \in Origins :
          \E signature \in CandidateSignatures(data, device_id) :
              VerifyCall("A", data, signature, device_id)

VerifySpec == Init /\ [][VerifyNext]_vars

\* --------------------------------------------- _is_operation_newer alone
\* The newer test is called with any operation clock and document clock over
\* the device ids; trial.op and trial.before hold the two clocks.
NewerClocks == ClocksOver(DeviceIds, MaxDrawn)

IsOperationNewerCall(op_clock, doc_clock) ==
    /\ lastCall' = Call("is_operation_newer", "A",
                        IF IsOperationNewer(op_clock, doc_clock) THEN "true" ELSE "false",
                        FALSE)
    /\ trial' = [NoTrial EXCEPT !.step = 1, !.op = op_clock, !.before = doc_clock]
    /\ UNCHANGED << engineVars, securityVars, storeVars, net, created,
                    scenario, identityVars >>

NewerNext ==
    \E op_clock \in NewerClocks, doc_clock \in NewerClocks :
        IsOperationNewerCall(op_clock, doc_clock)

NewerSpec == Init /\ [][NewerNext]_vars

\* ------------------------------------------------------- start that fails
\* The steps of start after _load_documents, any of which may raise.
StartSteps == {"discovery", "server", "handlers"}

\* SyncEngine.start when the step at raises: the documents are loaded and the
\* steps before it done; the except clause sets ERROR and re-raises.
StartFails(d, at) ==
    \E now \in ClockReadings :
        /\ state' = [state EXCEPT ![d] = "error"]
        /\ documents' = [documents EXCEPT ![d] =
                            DocPut(@, "preferences_user", PreferencesDocument(d, now))]
        /\ services' = [services EXCEPT ![d] =
              [discovery |-> IF at = "discovery" THEN @.discovery ELSE "running",
               server    |-> IF at = "handlers" THEN "running" ELSE @.server]]
        /\ lastCall' = Call("start", d, "raised", FALSE)
        /\ UNCHANGED << vector_clock, connected_devices, connections,
                        trusted_devices, session_keys, trusted_file, storage, net, created >>

\* One round of MockDiscoveryService._discovery_loop, the only task the
\* engine runs by itself: it sleeps and discovers nothing.
DiscoveryLoop(d) ==
    /\ services[d].discovery = "running"
    /\ lastCall' = Call("discovery_loop", d, "ok", FALSE)
    /\ UNCHANGED << engineVars, securityVars, storeVars, net, created >>

\* is_running
IsRunning(d) == state[d] \notin {"stopped", "error"}

\* ------------------------------------------------- one device's life cycle
\* Device A is started, stopped and restarted, and pairs with B, in any
\* order; trial.arg holds the argument of the call made last.
Called(arg) ==
    /\ trial' = [NoTrial EXCEPT !.arg = arg]
    /\ UNCHANGED scenario

SameProcess == UNCHANGED identityVars

RunNext ==
    \/ Start("A") /\ Called("none") /\ SameProcess
    \/ \E at \in StartSteps : StartFails("A", at) /\ Called(at) /\ SameProcess
    \/ Stop("A") /\ Called("none") /\ SameProcess
    \/ \E id \in Devices, t \in BOOLEAN : AddDevice("A", id, t) /\ Called(id) /\ SameProcess
    \/ \E id \in Devices : RemoveDevice("A", id) /\ Called(id) /\ SameProcess
    \/ \E id \in Devices \ {"A"} : TrustDevice("A", id) /\ Called(id) /\ SameProcess
    \/ \E id \in DeviceIds \ {"A"} : UntrustDevice("A", id) /\ Called(id) /\ SameProcess
    \/ Initialize("A") /\ Called(keys_file["A"])
    \/ DiscoveryLoop("A") /\ Called("none") /\ SameProcess

RunSpec == Init /\ [][RunNext]_vars

\* The same, with the discovery loop running for as long as it is started.
FairRunSpec == RunSpec /\ WF_vars(DiscoveryLoop("A") /\ Called("none") /\ SameProcess)

\* ------------------------------------------------------ the trust manager
\* Device A trusts and untrusts B and X, grants and revokes their
\* permissions, and is restarted; a write of trusted_devices.json may fail.
CalledWith(arg, fault) ==
    /\ trial' = [NoTrial EXCEPT !.arg = arg, !.fault = fault]
    /\ UNCHANGED scenario

TrustNext ==
    \/ \E id \in DeviceIds \ {"A"} : TrustDevice("A", id) /\ Called(id) /\ SameProcess
    \/ \E id \in DeviceIds \ {"A"} :
          TrustDeviceUnsaved("A", id) /\ CalledWith(id, "write_fails") /\ SameProcess
    \/ \E id \in DeviceIds \ {"A"} : UntrustDevice("A", id) /\ Called(id) /\ SameProcess
    \/ \E id \in DeviceIds \ {"A"}, c \in Capabilities, l \in PermissionLevels :
          GrantPermission("A", id, c, l) /\ Called(id) /\ SameProcess
    \/ \E id \in DeviceIds \ {"A"}, c \in Capabilities :
          RevokePermission("A", id, c) /\ Called(id) /\ SameProcess
    \/ Initialize("A") /\ Called(keys_file["A"])

TrustSpec == Init /\ [][TrustNext]_vars

\* ------------------------------------------------------------ permissions
\* Device A trusts and untrusts B and X, grants and revokes their
\* permissions, and checks them; trial.arg holds the device and trial.op the
\* capability and level of the call made last.
CalledOn(id, capability, level) ==
    /\ trial' = [NoTrial EXCEPT !.arg = id,
                                !.op = [capability |-> capability, level |-> level]]
    /\ UNCHANGED scenario

PermissionNext ==
    \/ \E id \in DeviceIds \ {"A"} : TrustDevice("A", id) /\ Called(id) /\ SameProcess
    \/ \E id \in DeviceIds \ {"A"} : UntrustDevice("A", id) /\ Called(id) /\ SameProcess
    \/ \E id \in DeviceIds \ {"A"}, c \in Capabilities, l \in PermissionLevels :
          GrantPermission("A", id, c, l) /\ CalledOn(id, c, l) /\ SameProcess
    \/ \E id \in DeviceIds \ {"A"}, c \in Capabilities :
          RevokePermission("A", id, c) /\ CalledOn(id, c, "none") /\ SameProcess
    \/ \E id \in DeviceIds \ {"A"}, c \in Capabilities, l \in PermissionLevels :
          CheckPermissionCall("A", id, c, l) /\ CalledOn(id, c, l) /\ SameProcess

PermissionSpec == Init /\ [][PermissionNext]_vars

\* ------------------------------------------------------- pairing over the API
\* GET /pairing-info on device p: the engine's device_id, which is
\* settings.DEVICE_NAME, and the two public keys as hex.
PairingInfo(p) ==
    [ device_id          |-> p,
      public_key         |-> KeyHex(GenerateMockKeys(p, device_keys[p]).public_key),
      signing_public_key |-> KeyHex(GenerateMockKeys(p, device_keys[p]).signing_public_key) ]

\* hashlib.sha256(public_key).hexdigest()[:16]: one 16-character string per
\* key, which is no device name.
DeviceIdFromKey(public_key) == "sha256:" \o public_key[2] \o ":" \o public_key[3]

\* POST /pair on device d with the materials of another device: the id is
\* computed from the encryption public key, the device is trusted under it
\* and handed to add_device as a trusted descriptor.
PairDevice(d, materials) ==
    LET id    == DeviceIdFromKey(KeyFromHex(materials.public_key))
        conns == IF id \notin Range(connections[d])
                 THEN Append(connections[d], id)
                 ELSE connections[d]
        clock == IF id \in DOMAIN vector_clock[d]
                 THEN vector_clock[d]
                 ELSE [k \in DOMAIN vector_clock[d] \cup {id} |->
                         IF k = id THEN 0 ELSE vector_clock[d][k]]
    IN  /\ trusted_devices' = [trusted_devices EXCEPT ![d] =
               DocPut(@, id, TrustedDevice(KeyFromHex(materials.signing_public_key),
                                           EmptyMap))]
        /\ session_keys' = [session_keys EXCEPT ![d] = @ \cup {id}]
        /\ trusted_file' = [trusted_file EXCEPT ![d] = SaveTrustedDevices(trusted_devices'[d])]
        /\ connected_devices' = [connected_devices EXCEPT ![d] =
               DocPut(@, id, [is_trusted |-> TRUE])]
        /\ vector_clock' = [vector_clock EXCEPT ![d] = clock]
        /\ connections' = [connections EXCEPT ![d] = conns]
        /\ net' = [net EXCEPT ![d] =
                      DocPut(@, id, [type |-> "initial_sync",
                                     body |-> [InitialSyncMessage(d) EXCEPT
                                                 !.vector_clock = clock]])]
        /\ lastCall' = Call("pair_device", d, "ok", FALSE)
        /\ UNCHANGED << state, documents, services, storage, created >>

\* Devices A and B exchange their pairing information, pair through the API,
\* write note1 and are handed each other's operations.
PairingNext ==
    \/ \E d \in Devices : PairDevice(d, PairingInfo(Peer(d))) /\ Called(Peer(d)) /\ SameProcess
    \/ \E d \in Devices, t \in ScenarioTypes, c \in WritePayloads :
          CreateSyncOperation(d, t, "note1", c) /\ Called("note1") /\ SameProcess
    \/ \E d \in Devices : \E op \in PeerOperations(d) :
          ApplySyncOperation(d, op) /\ Called(op.device_id) /\ SameProcess

PairingSpec == Init /\ [][PairingNext]_vars

\* --------------------------------------------------------- restarts alone
\* Device A writes note1, its keys file may be lost or damaged, and the
\* process is restarted and started.
BootNext ==
    \/ \E t \in {"create", "update"}, c \in WritePayloads :
          CreateSyncOperation("A", t, "note1", c) /\ Called("note1") /\ SameProcess
    \/ \E condition \in KeysFileConditions :
          DamageKeysFile("A", condition) /\ Called(condition)
    \/ Initialize("A") /\ Called(keys_file["A"])
    \/ Start("A") /\ Called("none") /\ SameProcess
    \/ Stop("A") /\ Called("none") /\ SameProcess

BootSpec == Init /\ [][BootNext]_vars

\* ------------------------------------------------ local writes and sending
\* SyncEngine.sync_document(document_id, document_type, content): always an
\* "update" operation, whether or not the document exists.
SyncDocument(d, document_id, content) ==
    CreateSyncOperation(d, "update", document_id, content)

\* What the connection's send can do besides returning: raise, or never
\* complete.  MockConnection.send does neither; a transport may do both.
TransportFaults == {"raises", "hangs"}

\* add_device of a trusted peer with a session key whose connection.send
\* fails in _initial_sync.  The connection is already in the dict; a raise is
\* caught and logged by _initial_sync, a hang is awaited without a timeout
\* and its message stays in flight.
AddDeviceTransport(d, id, fault) ==
    LET conns == IF id \notin Range(connections[d])
                 THEN Append(connections[d], id)
                 ELSE connections[d]
        clock == IF id \in DOMAIN vector_clock[d]
                 THEN vector_clock[d]
                 ELSE [k \in DOMAIN vector_clock[d] \cup {id} |->
                         IF k = id THEN 0 ELSE vector_clock[d][k]]
    IN  /\ id # d
        /\ CanSend(d, conns, id, TRUE)
        /\ connected_devices' = [connected_devices EXCEPT ![d] =
               DocPut(@, id, [is_trusted |-> TRUE])]
        /\ vector_clock' = [vector_clock EXCEPT ![d] = clock]
        /\ connections' = [connections EXCEPT ![d] = conns]
        /\ net' = IF fault = "hangs"
                  THEN [net EXCEPT ![d] =
                          DocPut(@, id, [type |-> "hung",
                                         body |-> [InitialSyncMessage(d) EXCEPT
                                                     !.vector_clock = clock]])]
                  ELSE net
        /\ lastCall' = Call("add_device", d,
                            IF fault = "hangs" THEN "hung" ELSE "connected", FALSE)
        /\ UNCHANGED << state, documents, services, trusted_devices,
                        session_keys, trusted_file, storage, created >>

\* A send to peer that was handed to the connection and has not completed.
HungSend(d, peer) == peer \in DOMAIN net[d] /\ net[d][peer].type = "hung"

\* The documents a local write can name: a new one and the sample one.
WrittenIds == {"note1", "preferences_user"}

\* Device A is started, pairs with B and X, and writes documents while
\* sends to its peers succeed, raise or hang.
SendNext ==
    \/ Start("A") /\ Called("none") /\ SameProcess
    \/ \E id \in DeviceIds \ {"A"} : TrustDevice("A", id) /\ Called(id) /\ SameProcess
    \/ \E id \in DeviceIds \ {"A"} : AddDevice("A", id, TRUE) /\ Called(id) /\ SameProcess
    \/ \E id \in DeviceIds \ {"A"}, fault \in TransportFaults :
          AddDeviceTransport("A", id, fault) /\ CalledWith(id, fault) /\ SameProcess
    \/ \E id \in WrittenIds, c \in WritePayloads :
          SyncDocument("A", id, c) /\ Called(id) /\ SameProcess
    \/ DiscoveryLoop("A") /\ Called("none") /\ SameProcess

SendSpec == Init /\ [][SendNext]_vars

\* The same, with the discovery loop running for as long as it is started.
FairSendSpec == SendSpec /\ WF_vars(DiscoveryLoop("A") /\ Called("none") /\ SameProcess)

\* ------------------------------------------------------------------- claims

\* C1: for every operation received from a peer, whatever its type, payload
\* and clock, if its signature does not verify against the trusted devices
\* (wrong signature, or an origin that is not trusted), handling it leaves
\* the documents, the global vector clock and the persisted items unchanged.
C1_UnverifiedChangesNothing ==
    [][ lastCall'.name = "apply_sync_operation" /\ ~lastCall'.verified
        => UNCHANGED << documents, vector_clock, storage >> ]_vars

\* A received operation that would have changed the store was turned away for
\* its signature while its origin was trusted.
C1_Witness ==
    /\ lastCall.name = "apply_sync_operation"
    /\ lastCall.outcome = "invalid_signature"
    /\ lastCall.effective
    /\ "B" \in DOMAIN trusted_devices["A"]

\* C6: every local write raises the device's own clock entry by exactly one
\* and the operation it creates carries the new value; so N writes in a row
\* raise it by N and the k-th operation carries the old value plus k.
C6_LocalWriteIncrementsByOne ==
    [][ lastCall'.name = "create_sync_operation" /\ lastCall'.dev = "A"
        => /\ vector_clock'["A"]["A"] = vector_clock["A"]["A"] + 1
           /\ created'["A"][1].vector_clock["A"] = vector_clock'["A"]["A"]
           /\ created'["A"][1].device_id = "A" ]_vars

\* Two local writes have been made, the second stamped 2.
C6_Witness ==
    /\ lastCall.name = "create_sync_operation"
    /\ vector_clock["A"]["A"] = 2
    /\ created["A"][1].vector_clock["A"] = 2

\* The content and vector_clock of every document of a documents dict.
ContentAndClock(docs) ==
    [id \in DOMAIN docs |-> << docs[id].content, docs[id].vector_clock >>]

\* C2: from one state of a document, two non-conflicting operations on it
\* (different origins, concurrent clocks, payloads over different fields)
\* leave the same content and document vector_clock whichever is applied
\* first.
C2_OrderIndependent ==
    ( /\ trial.second = "other"
      /\ NonConflicting(trial.op, trial.other)
      /\ trial.op.document_id \in DOMAIN trial.before.documents )
    =>
        ContentAndClock(documents["A"]) =
            ContentAndClock(ApplyToDocuments(
                ApplyToDocuments(trial.before.documents, trial.other), trial.op))

\* C3: an operation of any type whose clock is dominated by the clock of the
\* document it targets leaves that document in place with the same content
\* and vector_clock.
C3_DominatedLeavesDocument ==
    ( /\ trial.step = 1
      /\ lastCall.name = "apply_operation"
      /\ trial.op.document_id \in DOMAIN trial.before.documents
      /\ Dominates(trial.before.documents[trial.op.document_id].vector_clock,
                   trial.op.vector_clock) )
    => /\ trial.op.document_id \in DOMAIN documents["A"]
       /\ ContentAndClock(documents["A"])[trial.op.document_id] =
              ContentAndClock(trial.before.documents)[trial.op.document_id]

\* C4: for a document that exists before and after an _apply_operation call,
\* no entry of its vector_clock is lowered or dropped, and when the document
\* changed its clock is the pointwise maximum of its old clock and the
\* operation's clock.
C4_DocumentClockIsPointwiseMax ==
    ( /\ trial.step = 1
      /\ lastCall.name = "apply_operation"
      /\ trial.op.document_id \in DOMAIN trial.before.documents
      /\ trial.op.document_id \in DOMAIN documents["A"] )
    => LET old == trial.before.documents[trial.op.document_id]
           new == documents["A"][trial.op.document_id]
       IN  /\ \A k \in DOMAIN old.vector_clock :
                 /\ k \in DOMAIN new.vector_clock
                 /\ new.vector_clock[k] >= old.vector_clock[k]
           /\ new # old =>
                 new.vector_clock =
                     MergeVectorClock(old.vector_clock, trial.op.vector_clock)

\* C5: an operation of any type applied twice in a row leaves every document
\* with the content and vector_clock it has after one application.
C5_ApplyTwiceIsApplyOnce ==
    trial.second = "replay" =>
        ContentAndClock(documents["A"]) =
            ContentAndClock(ApplyToDocuments(trial.before.documents, trial.op))

\* An update that changed the document was applied a second time.
C5_Witness ==
    /\ trial.second = "replay"
    /\ trial.op.operation_type = "update"
    /\ trial.op.document_id \in DOMAIN trial.before.documents
    /\ ContentAndClock(documents["A"]) # ContentAndClock(trial.before.documents)

\* C7: the device's own entry of the global clock changes only in a local
\* write: applying an operation of another device, add_device, remove_device,
\* start and stop leave it as it was.
C7_OwnEntryOnlyByLocalWrite ==
    ( /\ trial.step = 1
      /\ lastCall.name # "create_sync_operation"
      /\ lastCall.name = "apply_operation" => trial.op.device_id # "A" )
    => vector_clock["A"]["A"] = trial.before.vector_clock["A"]

\* C8: no entry of the global vector clock decreases or disappears, and the
\* entry of another device changes only to the maximum of its old value and
\* the value an applied operation carries for it.
C8_GlobalClockOnlyMerges ==
    trial.step >= 1 =>
        LET old == trial.before.vector_clock
            new == vector_clock["A"]
        IN  /\ \A k \in DOMAIN old : k \in DOMAIN new /\ new[k] >= old[k]
            /\ trial.step = 1 =>
                 \A k \in DOMAIN new \ {"A"} :
                     new[k] = IF /\ lastCall.name = "apply_operation"
                                 /\ k \in DOMAIN trial.op.vector_clock
                              THEN Max(ClockGet(old, k), trial.op.vector_clock[k])
                              ELSE ClockGet(old, k)

\* An applied operation raised the entry of device B, and one carried a lower
\* value for B than the global clock held.
C8_Witness ==
    /\ trial.step = 1
    /\ lastCall.name = "apply_operation"
    /\ "B" \in DOMAIN trial.op.vector_clock
    /\ ClockGet(trial.before.vector_clock, "B") # trial.op.vector_clock["B"]
    /\ vector_clock["A"]["B"] = 1

\* Two clocks with the same reading for every device (a missing entry reads 0).
SameClock(a, b) == Dominates(a, b) /\ Dominates(b, a)

\* Device d holds note1 with this content and this vector_clock.
Holds(d, content, clock) ==
    /\ "note1" \in DOMAIN documents[d]
    /\ documents[d]["note1"].content = content
    /\ SameClock(documents[d]["note1"].vector_clock, clock)

\* C9: after A created note1 {text: "hi"} and B, trusting A, received the
\* operation, B holds {text: "hi"} at {A:1}; after B then updated it to
\* {text: "hi all"} and A, trusting B, received that operation, both devices
\* hold {text: "hi all"} at {A:1, B:1}.
C9_TwoDeviceExchange ==
    /\ scenario.step = 2 =>
          Holds("B", [k \in {"text"} |-> "hi"], [k \in {"A"} |-> 1])
    /\ scenario.step = 4 =>
          \A d \in Devices :
              Holds(d, [k \in {"text"} |-> "hi all"], [k \in {"A", "B"} |-> 1])

\* Each device has handled the other's initial_sync message since the last
\* write, and nothing that was sent is still to be handled.
Quiescent ==
    /\ scenario.synced = { << "A", "B" >>, << "B", "A" >> }
    /\ \A d \in Devices : DOMAIN net[d] = {}

\* Device d holds a document its peer lacks, or a version of one whose clock
\* is above the clock of the peer's copy.
Ahead(d) ==
    \E id \in DOMAIN documents[d] :
        \/ id \notin DOMAIN documents[Peer(d)]
        \/ /\ Dominates(documents[d][id].vector_clock,
                        documents[Peer(d)][id].vector_clock)
           /\ ~SameClock(documents[d][id].vector_clock,
                         documents[Peer(d)][id].vector_clock)

\* C10: once trusted peers have connected through add_device and their
\* initial syncs have run to the end with no write since, neither holds a
\* document, or a newer version of one, that the other is missing.
C10_InitialSyncConverges ==
    Quiescent => \A d \in Devices : ~Ahead(d)


\* ------------------------------------------------------------ session keys

C12_TrustedPeerGetsSessionAndSync ==
    ( /\ lastCall.name = "add_device"
      /\ lastCall.outcome \in {"synced", "connected"}
      /\ trial.arg \in DOMAIN trusted_devices["A"] )
    => /\ trial.arg \in session_keys["A"]
       /\ lastCall.outcome = "synced"
       /\ trial.arg \in DOMAIN net["A"]
       /\ net["A"][trial.arg].type = "initial_sync"
       /\ { x.id : x \in net["A"][trial.arg].body.documents } = DOMAIN documents["A"]

\* C13: whenever a step closes the connection to a peer (remove_device, stop,
\* or the end of the process), no session key for that peer remains and
\* encrypt_for_device for it raises.
C13_SessionEndsWithConnection ==
    [][ \A id \in Range(connections["A"]) \ Range(connections'["A"]) :
            /\ id \notin session_keys'["A"]
            /\ \A data \in Messages :
                  EncryptForDevice(session_keys'["A"], data, id) = << "raised" >> ]_vars

\* C14: after untrust_device(id) the device is not trusted, has no session
\* key, no signature verifies for it and encrypt_for_device for it raises;
\* when id was not trusted before the call (never trusted, or untrusted by
\* the call before), nothing but the record of the call changes.
C14_UntrustRemovesTrustAndSession ==
    [][ lastCall'.name = "untrust_device" =>
          /\ trial'.arg \notin DOMAIN trusted_devices'["A"]
          /\ trial'.arg \notin session_keys'["A"]
          /\ \A data \in Messages :
                /\ \A sig \in CandidateSignatures(data, trial'.arg) :
                      ~VerifySignature(data, sig, trial'.arg, trusted_devices'["A"])
                /\ EncryptForDevice(session_keys'["A"], data, trial'.arg) = << "raised" >>
          /\ trial'.arg \notin DOMAIN trusted_devices["A"] =>
                UNCHANGED << engineVars, securityVars, storeVars, net, created >>
          /\ (lastCall.name = "untrust_device" /\ trial.arg = trial'.arg) =>
                UNCHANGED << engineVars, securityVars, storeVars, net, created >>
      ]_vars

\* untrust_device has just removed B, which was trusted.
C14_Witness ==
    /\ lastCall.name = "untrust_device"
    /\ lastCall.outcome = "removed"
    /\ trial.arg = "B"
    /\ "B" \notin DOMAIN trusted_devices["A"]


\* ---------------------------------------------------------------- identity

\* C15: a restart that finds the keys file intact comes up with the key
\* pairs the device had before it; fresh ones are never generated.
C15_IdentityStableAcrossRestart ==
    [][ (lastCall'.name = "initialize" /\ keys_file["A"] = "intact") =>
            GenerateMockKeys("A", device_keys'["A"]) =
                GenerateMockKeys("A", device_keys["A"]) ]_vars

\* C16: initialization that finds the keys file present but corrupt ends in
\* a fatal error; it does not come up with keys.
C16_CorruptIdentityIsFatal ==
    (lastCall.name = "initialize" /\ trial.arg = "corrupt") =>
        lastCall.outcome = "fatal"


\* C17: verify_signature ends with a boolean for every input, and with false
\* whenever the origin is not trusted or the signature is not the one the
\* origin's sign_data gives for those bytes.
C17_VerifyTotalAndSound ==
    lastCall.name = "verify_signature" =>
        /\ lastCall.outcome \in {"true", "false"}
        /\ ( \/ trial.op.device_id \notin DOMAIN trusted_devices["A"]
             \/ trial.op.signature # SignData(trial.op.data, trial.op.device_id) )
           => lastCall.outcome = "false"


\* ---------------------------------------------------------------- life cycle

\* C18: after stop() the state is STOPPED, no connection is left, and
\* neither discovery nor the sync server is running.
C18_StopClosesEverything ==
    lastCall.name = "stop" =>
        /\ state["A"] = "stopped"
        /\ connections["A"] = << >>
        /\ services["A"].discovery # "running"
        /\ services["A"].server # "running"


\* C19: a start() that succeeds ends in DISCOVERING with the document store
\* holding every document of the persisted snapshot, as persisted; a start()
\* that fails ends in ERROR.
C19_StartLoadsSnapshot ==
    lastCall.name = "start" =>
        /\ lastCall.outcome = "ok" =>
              /\ state["A"] = "discovering"
              /\ \A id \in DOMAIN storage["A"] :
                    /\ id \in DOMAIN documents["A"]
                    /\ PersistedItem(documents["A"][id]) = storage["A"][id]
        /\ lastCall.outcome = "raised" => state["A"] = "error"

\* C20: whenever the engine is in ERROR it later leaves it (for DISCOVERING,
\* or STOPPED by a stop()).
C20_ErrorRecovers ==
    (state["A"] = "error") ~> (state["A"] # "error")


\* ------------------------------------------------------------ persisted trust

\* C29: when trust_device returns True the registration is in
\* trusted_devices.json, and when writing that file fails it returns False.
C29_TrustReturnsFalseOnWriteFailure ==
    lastCall.name = "trust_device" =>
        /\ lastCall.outcome = "ok" =>
              /\ trial.arg \in DOMAIN trusted_file["A"]
              /\ LoadTrustedDevices(trusted_file["A"])[trial.arg] =
                     trusted_devices["A"][trial.arg]
        /\ trial.fault = "write_fails" => lastCall.outcome # "ok"

\* C30: after trust_device, an untrust_device that removed a device,
\* grant_permission and revoke_permission, when the file was written, what
\* _load_trusted_devices reads from trusted_devices.json is the dict in
\* memory: the same devices, keys, capabilities and levels.
C30_PersistedTrustEqualsMemory ==
    ( /\ lastCall.name \in {"trust_device", "untrust_device",
                            "grant_permission", "revoke_permission"}
      /\ lastCall.outcome \in {"ok", "removed"}
      /\ trial.fault = "none" )
    => LoadTrustedDevices(trusted_file["A"]) = trusted_devices["A"]

\* B holds a permission that grant_permission has just set.
C30_Witness ==
    /\ lastCall.name = "grant_permission"
    /\ lastCall.outcome = "ok"
    /\ trial.arg = "B"
    /\ DOMAIN trusted_devices["A"]["B"].permissions # {}
    /\ LoadTrustedDevices(trusted_file["A"]) = trusted_devices["A"]


\* -------------------------------------------------------------- remove_device

\* C25: remove_device(id) leaves id with no connection and out of the
\* connected devices, and leaves the trusted devices (status, keys and
\* permissions), their file, every document and the global clock as they
\* were; for an id that is not a connected device nothing changes.
C25_RemoveDeviceFrame ==
    [][ lastCall'.name = "remove_device" =>
          /\ trial'.arg \notin Range(connections'["A"])
          /\ trial'.arg \notin DOMAIN connected_devices'["A"]
          /\ UNCHANGED << trusted_devices, trusted_file, documents, vector_clock, storage >>
          /\ trial'.arg \notin DOMAIN connected_devices["A"] =>
                UNCHANGED << engineVars, securityVars, storeVars, net, created >>
      ]_vars

\* remove_device has just removed B, which is trusted.
C25_Witness ==
    /\ lastCall.name = "remove_device"
    /\ lastCall.outcome = "removed"
    /\ trial.arg = "B"
    /\ "B" \in DOMAIN trusted_devices["A"]
    /\ "B" \notin Range(connections["A"])


\* ------------------------------------------------------------------ timestamps

\* C27: an operation applied to a store leaves every document with the
\* content and vector_clock, and the global clock with the value, that the
\* same operation under any other timestamp would have left.
C27_TimestampDoesNotDecide ==
    (trial.step = 1 /\ lastCall.name = "apply_operation") =>
        \A t \in Timestamps :
            LET other == [trial.op EXCEPT !.timestamp = t] IN
            /\ ContentAndClock(documents["A"]) =
                   ContentAndClock(ApplyToDocuments(trial.before.documents, other))
            /\ vector_clock["A"] =
                   MergeVectorClock(trial.before.vector_clock, other.vector_clock)


\* ---------------------------------------------------------- inbound failures

\* C24: handling an inbound operation leaves the engine state as it was, and
\* an operation that is not applied (malformed, not serializable, signature
\* not verified) leaves the store as it was and raises the error metric by
\* exactly one.
C24_InboundFailureCountedOnce ==
    [][ lastCall'.name = "apply_sync_operation" =>
          /\ state' = state
          /\ lastCall'.outcome # "applied" =>
                /\ UNCHANGED storeVars
                /\ lastCall'.sync_errors = 1
      ]_vars


\* ------------------------------------------------------------- local writes

\* C26: the first local write to a document id that does not exist creates
\* the document: when sync_document returns, the store holds it with the
\* written content and the operation's clock.
C26_FirstWriteCreates ==
    [][ ( /\ lastCall'.name = "create_sync_operation"
          /\ trial'.arg \notin DOMAIN documents["A"] )
        => /\ trial'.arg \in DOMAIN documents'["A"]
           /\ documents'["A"][trial'.arg].content = created'["A"][1].data.content
           /\ documents'["A"][trial'.arg].vector_clock = created'["A"][1].vector_clock
      ]_vars

\* C28: local writes on one device, in any interleaving, each take the next
\* own-clock value, are applied in that order, and none is rejected as stale:
\* a write to a document that exists leaves it with the operation's clock and
\* the written keys.
C28_LocalWritesInOrderNeverStale ==
    [][ lastCall'.name = "create_sync_operation" =>
          LET op == created'["A"][1]
              id == trial'.arg
          IN  /\ op.vector_clock["A"] = vector_clock["A"]["A"] + 1
              /\ vector_clock'["A"]["A"] = op.vector_clock["A"]
              /\ id \in DOMAIN documents["A"] =>
                    /\ documents'["A"][id].vector_clock = op.vector_clock
                    /\ \A k \in DOMAIN op.data.content :
                          /\ k \in DOMAIN documents'["A"][id].content
                          /\ documents'["A"][id].content[k] = op.data.content[k]
      ]_vars

\* ------------------------------------------------------------ sending

\* C21: when a write is broadcast to several connected peers and the send to
\* one of them fails (it has no session key), every other connected peer is
\* sent the operation, and the local apply and the clock increment stay.
C21_OneFailedSendDoesNotBlockOthers ==
    ( /\ lastCall.name = "create_sync_operation"
      /\ \E p \in Range(connections["A"]) : p \notin session_keys["A"] )
    => /\ \A q \in Range(connections["A"]) \cap session_keys["A"] :
             /\ q \in DOMAIN net["A"]
             /\ net["A"][q] = [type |-> "sync_operation", body |-> created["A"][1]]
       /\ vector_clock["A"]["A"] = created["A"][1].vector_clock["A"]

\* C22: when a send to a connected peer never completes, that peer is dropped
\* from the connected set after a bounded wait, and an operation written
\* meanwhile is still sent to every other connected peer.
C22_HungPeerDroppedOthersServed ==
    \A p \in DeviceIds \ {"A"} :
        /\ HungSend("A", p) ~>
              (p \notin Range(connections["A"]) /\ p \notin DOMAIN connected_devices["A"])
        /\ \A q \in DeviceIds \ {"A", p} :
              ( /\ HungSend("A", p)
                /\ lastCall.name = "create_sync_operation"
                /\ q \in Range(connections["A"]) \cap session_keys["A"] )
              ~> (q \in DOMAIN net["A"] /\ net["A"][q].type = "sync_operation")

\* C23: after a transport failure while sending to a peer, the peer is out of
\* the connected set: its connection is closed and forgotten.
C23_FailedPeerRemoved ==
    (lastCall.name = "add_device" /\ trial.fault = "raises") =>
        /\ trial.arg \notin Range(connections["A"])
        /\ trial.arg \notin DOMAIN connected_devices["A"]


\* ------------------------------------------------------------ the newer test

\* C36: is_operation_newer(op, doc) is true exactly when every entry of the
\* operation's clock is at least the document's entry for that device (a
\* missing document entry counting as 0) and one of them is strictly
\* greater; so it is false when an entry of the operation is smaller and
\* false when the clocks are equal.
C36_NewerAgreesWithDefinition ==
    lastCall.name = "is_operation_newer" =>
        LET op  == trial.op
            doc == trial.before
            docAt(d) == IF d \in DOMAIN doc THEN doc[d] ELSE 0
        IN  /\ (lastCall.outcome = "true") <=>
                  /\ \A d \in DOMAIN op : op[d] >= docAt(d)
                  /\ \E d \in DOMAIN op : op[d] > docAt(d)
            /\ (\E d \in DOMAIN op : op[d] < docAt(d)) => lastCall.outcome = "false"
            /\ op = doc => lastCall.outcome = "false"

C36_Witness ==
    /\ lastCall.name = "is_operation_newer"
    /\ lastCall.outcome = "true"
    /\ \E d \in DOMAIN trial.op : d \notin DOMAIN trial.before /\ trial.op[d] = 1
    /\ \E d \in DOMAIN trial.op : d \in DOMAIN trial.before /\ trial.op[d] = trial.before[d]


\* ------------------------------------------------------- the update branch

\* C37: an update is accepted or rejected as a whole.  Accepted (the document
\* exists and the operation is newer): every key of the payload has the
\* payload's value and every other key of the document keeps its value.
\* Rejected (not newer, or no such document): the documents are exactly as
\* before, content, vector_clock and last_modified included, and no document
\* is created.
C37_UpdateWholeOrNothing ==
    ( /\ trial.step = 1
      /\ lastCall.name = "apply_operation"
      /\ trial.op.operation_type = "update" )
    => LET op      == trial.op
           id      == op.document_id
           payload == op.data.content
           before  == trial.before.documents
           after   == documents["A"]
       IN  IF id \in DOMAIN before
              /\ IsOperationNewer(op.vector_clock, before[id].vector_clock)
           THEN /\ DOMAIN after = DOMAIN before
                /\ DOMAIN after[id].content = DOMAIN before[id].content \cup DOMAIN payload
                /\ \A k \in DOMAIN payload : after[id].content[k] = payload[k]
                /\ \A k \in DOMAIN before[id].content \ DOMAIN payload :
                      after[id].content[k] = before[id].content[k]
           ELSE after = before

C37_Witness ==
    /\ trial.step = 1
    /\ lastCall.name = "apply_operation"
    /\ trial.op.operation_type = "update"
    /\ "note1" \in DOMAIN trial.before.documents
    /\ trial.before.documents["note1"].content = [k \in {"text"} |-> "hi"]
    /\ trial.op.data.content = [k \in {"theme"} |-> "light"]
    /\ documents["A"]["note1"].content =
          [k \in {"text", "theme"} |-> IF k = "text" THEN "hi" ELSE "light"]


\* --------------------------------------------------------------- late replays

\* C35: replaying an operation that was already applied, after another
\* create, update or delete of the same document was applied in between,
\* leaves the documents unchanged: a replayed create does not bring back a
\* deleted document, a replayed update does not overwrite later content, a
\* replayed delete does not remove a re-created document.
C35_LateReplayChangesNothing ==
    [][ (trial.second = "between" /\ trial'.second = "replay_later")
        => documents'["A"] = documents["A"] ]_vars


\* ------------------------------------------------------------ persistence

\* C33: after every _apply_operation the storage collaborator has been told
\* about the document the operation changed, so the last persisted state of
\* each document id equals the documents in memory, and a deleted document
\* has no persisted state left.
C33_PersistedEqualsMemory ==
    (trial.step = 1 /\ lastCall.name = "apply_operation") =>
        storage["A"] = [id \in DOMAIN documents["A"] |-> PersistedItem(documents["A"][id])]


\* ---------------------------------------------------------------- permissions

\* C31: grant for a device that is not in the trusted set fails with an
\* unknown-device error (it raises), and leaves the trusted set, every
\* permission, the count of granted permissions and the persisted file as
\* they were.
C31_GrantUnknownDeviceRaises ==
    [][ ( /\ lastCall'.name = "grant_permission"
          /\ trial'.arg \notin DOMAIN trusted_devices["A"] )
        => /\ lastCall'.outcome = "raised"
           /\ lastCall'.permissions_granted = 0
           /\ UNCHANGED << trusted_devices, trusted_file >>
      ]_vars


C34_OwnOperationVerifiesAtPeer ==
    [][ (scenario.step = 1 /\ scenario'.step = 2)
        => /\ lastCall'.name = "apply_sync_operation"
           /\ lastCall'.verified
           /\ lastCall'.outcome = "applied"
           /\ "note1" \in DOMAIN documents'["B"] ]_vars


\* ------------------------------------------------------------ device identity

\* C38: the device_id a device reports in its pairing information, which is
\* the one it stamps on its operations, is the hash of its own encryption
\* public key, hence the id under which a peer that pairs with that
\* information registers it, and the id verify looks up for its operations.
C38_ReportedIdIsPairedId ==
    /\ lastCall.name = "pair_device" =>
          LET info == PairingInfo(trial.arg) IN
          /\ info.device_id = DeviceIdFromKey(KeyFromHex(info.public_key))
          /\ info.device_id \in DOMAIN trusted_devices[lastCall.dev]
    /\ lastCall.name = "apply_sync_operation" =>
          (trial.arg \in DOMAIN trusted_devices[lastCall.dev]
             <=> DeviceIdFromKey(KeyFromHex(PairingInfo(trial.arg).public_key))
                    \in DOMAIN trusted_devices[lastCall.dev])


\* ------------------------------------------------- document clocks and the global clock

\* C39: in every reachable state, right after start included, each
\* document's vector_clock is pointwise at most the device's global clock;
\* hence a local write to an existing document is newer than it and is
\* applied: its payload is in the document's content when the write returns.
C39_DocumentClockBelowGlobal ==
    /\ \A id \in DOMAIN documents["A"] :
          \A k \in DOMAIN documents["A"][id].vector_clock :
              documents["A"][id].vector_clock[k] <= ClockGet(vector_clock["A"], k)
    /\ ( /\ lastCall.name = "create_sync_operation"
         /\ trial.arg \in DOMAIN documents["A"] )
       => \A k \in DOMAIN created["A"][1].data.content :
             /\ k \in DOMAIN documents["A"][trial.arg].content
             /\ documents["A"][trial.arg].content[k] = created["A"][1].data.content[k]


\* ------------------------------------------------------ connections and trust

\* C40: in every reachable state every peer with an open connection is in
\* the trusted set: add_device opens no connection to a device that is not
\* trusted, whatever is_trusted says in its descriptor, and untrust_device
\* leaves no open connection to the device.
C40_ConnectedPeersAreTrusted ==
    \A p \in Range(connections["A"]) : p \in DOMAIN trusted_devices["A"]

====
